---- MODULE Spec2Model ----
(***************************************************************************)
(* Campus cloud backend: the files, shares, assignments and submissions    *)
(* tables and the request handlers of generate_presigned_url.py,           *)
(* complete_upload.py, share_file.py, list_files.py and                    *)
(* submit_assignment.py, as a state machine over the DynamoDB tables and   *)
(* the S3 bucket.  Every DynamoDB call is one atomic step; createShares,   *)
(* revokeShare and submit, which read a table and then write it, are       *)
(* split at their store calls so that concurrent requests interleave       *)
(* between the read and the write.  The SNS notifications the handlers     *)
(* send when ENABLE_NOTIFICATIONS is set are steps of their own actions.   *)
(***************************************************************************)
EXTENDS Integers, Sequences, FiniteSets, TLC

\* ------------------------------------------------------------------ bounds
MaxTime == 1
MaxFiles == 1
MaxShares == 2
MaxDownloads == 1
MaxSubmissionIds == 3
MaxRecipients == 2

\* --------------------------------------------------------------- principals
\* The identity provider's principals: user id (claims.sub) and claims email.
Users == {"a", "b"}

ClaimsEmail(u) == IF u = "a" THEN "a@x.io" ELSE "b@x.io"

Procs == {1, 2}

NoId == "none"

\* str.lower() on the e-mail strings the model feeds in.
Lower(e) ==
  CASE e = "A@x.io" -> "a@x.io"
    [] e = "B@x.io" -> "b@x.io"
    [] OTHER -> e

\* An email that is a JSON number, not a string.
NonString == "<number>"

\* "@" in recipient_email, "." in recipient_email
HasAt(e) == e \in {"a@x.io", "A@x.io", "b@x.io", "B@x.io", "n@x.io", "n@x"}

HasDot(e) == e \in {"a@x.io", "A@x.io", "b@x.io", "B@x.io", "n@x.io", "n.x"}

\* The users table behind EmailIndex: the stored (lower-case) e-mail of each user.
UsersTable == {[userId |-> u, email |-> Lower(ClaimsEmail(u))] : u \in Users}

\* get_user_by_email: EmailIndex queried with email.lower(); NoId when no item.
get_user_by_email(e) ==
  LET items == {r \in UsersTable : r.email = Lower(e)}
  IN  IF items # {} THEN (CHOOSE r \in items : TRUE).userId ELSE NoId

\* f"pending-{uuid.uuid4()}": a fresh placeholder id, one per uuid drawn.
PendingNames == <<"pending-1", "pending-2", "pending-3", "pending-4",
                  "pending-5", "pending-6", "pending-7", "pending-8">>

PendingId(k) == PendingNames[k]

\* ------------------------------------------------------------------- expiry
\* expiresAt as the client sends it: absent, a string fromisoformat rejects,
\* or a timestamp with wall-clock reading `wall` and UTC offset `off`.
NoExpiry == [kind |-> "none", wall |-> 0, off |-> 0]

BadExpiry == [kind |-> "bad", wall |-> 0, off |-> 0]

Ts(w, o) == [kind |-> "ts", wall |-> w, off |-> o]

ExpiryInputs == {NoExpiry, BadExpiry, Ts(0, 0), Ts(1, 1)}

\* The instant a timestamp denotes (datetime.timestamp()): wall minus offset.
Instant(e) == e.wall - e.off

\* datetime.utcnow().replace(tzinfo=expiry.tzinfo) > expiry: the UTC wall clock
\* is relabelled with the expiry's offset, not converted, so the comparison is
\* between the two wall-clock readings.
UtcNowRelabelledAfter(t, e) == t > e.wall

\* The expiry test of the readers: "expiresAt" in share, parse, compare.
\* "raise" when fromisoformat rejects the stored string.
ExpiryCheck(e, t) ==
  CASE e.kind = "none" -> "ok"
    [] e.kind = "bad" -> "raise"
    [] OTHER -> IF UtcNowRelabelledAfter(t, e) THEN "expired" ELSE "ok"

\* ---------------------------------------------------------------- variables
VARIABLES
  now,         \* the clock (datetime.utcnow())
  files,       \* the files table: records keyed by (userId, fileId)
  s3,          \* keys of the objects in the bucket
  shares,      \* the shares table: records keyed by (fileId, sharedWithUserId)
  nextFileId,  \* uuids drawn for files
  nextShareId, \* uuids drawn for shares and placeholder ids
  req,         \* the request each worker is in, between two of its store calls
  out,         \* the response of the request that completed in the last step
  assignments, \* the assignments table (maintained elsewhere; submit counts in it)
  submissions, \* the submissions table
  nextSubmissionId, \* uuids drawn for submissions
  accepted,    \* the 201 responses of submit, in the order they were sent
  sns          \* the last notification handed to sns_client.publish, and how it ended

vars == <<now, files, s3, shares, nextFileId, nextShareId, req, out,
          assignments, submissions, nextSubmissionId, accepted, sns>>

\* What the handlers of the file and share routes never touch; with
\* ENABLE_NOTIFICATIONS off no handler publishes.
subVars == <<assignments, submissions, nextSubmissionId, accepted, sns>>

\* What the handlers of submit_assignment.py never touch; with
\* ENABLE_NOTIFICATIONS off no handler publishes.
fileVars == <<files, s3, shares, nextFileId, nextShareId, sns>>

NoKey == <<NoId, 0>>

\* f"users/{user_id}/files/{file_id}"
S3Key(u, f) == <<u, f>>

FileIds == 1..MaxFiles

NoOut == [op |-> "none"]

Idle == [op |-> "idle"]

\* ---------------------------------------------------------- store adapters
\* put_item: the item replaces whatever the table holds under its primary key.
PutFile(table, item) ==
  {r \in table : ~(r.userId = item.userId /\ r.fileId = item.fileId)} \cup {item}

\* put_item as if the table had no primary key: the item is added beside the
\* one already stored for (fileId, sharedWithUserId).
PutShareBeside(table, item) == table \cup {item}

PutShare(table, item) ==
  {r \in table : ~(r.fileId = item.fileId
                   /\ r.sharedWithUserId = item.sharedWithUserId)} \cup {item}

\* The file looked up by its fileId alone, whoever owns it.
GetFileAnyOwner(u, f) == {r \in files : r.fileId = f}

\* get_item(Key={"userId", "fileId"})
GetFile(u, f) == {r \in files : r.userId = u /\ r.fileId = f}

\* query(IndexName="FileIdIndex", fileId = f): every record with that fileId;
\* the index does not order records of one fileId, so Items[0] is any of them.
QueryFileIdIndex(f) == {r \in files : r.fileId = f}

\* query(fileId = f AND sharedWithUserId = g) on the shares table's primary key
QueryShare(f, g) == {s \in shares : s.fileId = f /\ s.sharedWithUserId = g}

\* query(fileId = f) on the shares table
QuerySharesOfFile(f) == {s \in shares : s.fileId = f}

\* query(IndexName="ShareIdIndex", shareId = sid); items without the attribute
\* are not in the index.
QueryShareIdIndex(sid) == {s \in shares : s.full /\ s.shareId = sid}

\* query(IndexName="SharedWithUserIndex", sharedWithUserId = u)
QuerySharedWithUserIndex(u) == {s \in shares : s.sharedWithUserId = u}

\* ------------------------------------------------------------------- files
\* The item handle_upload_url stores.
NewFile(u, f) ==
  [userId |-> u, fileId |-> f, status |-> "pending", full |-> TRUE,
   s3Key |-> S3Key(u, f), downloadCount |-> 0]

\* update_item without a condition on a key that holds no item creates the
\* item from the key and the SET attributes alone (no filename, no s3Key).
StubFile(u, f, st) ==
  [userId |-> u, fileId |-> f, status |-> st, full |-> FALSE,
   s3Key |-> NoKey, downloadCount |-> 0]

\* generate_presigned_url.handle_upload_url
handle_upload_url(u) ==
  /\ nextFileId <= MaxFiles
  /\ files' = PutFile(files, NewFile(u, nextFileId))
  /\ nextFileId' = nextFileId + 1
  /\ out' = [op |-> "upload_url", user |-> u, code |-> 200, fileId |-> nextFileId]
  /\ UNCHANGED <<now, s3, shares, nextShareId, req>>
  /\ UNCHANGED subVars

\* The client's POST to the presigned URL: an object under the key the
\* credentials were issued for.
S3Upload(u, f) ==
  /\ \E r \in GetFile(u, f) : r.full
  /\ S3Key(u, f) \notin s3
  /\ s3' = s3 \cup {S3Key(u, f)}
  /\ out' = NoOut
  /\ UNCHANGED <<now, files, shares, nextFileId, nextShareId, req>>
  /\ UNCHANGED subVars

\* complete_upload.handle_failed_upload: SET status = failed on (caller, fileId),
\* with no read and no condition.
FailedUpdate(u, f) ==
  IF GetFile(u, f) = {}
  THEN PutFile(files, StubFile(u, f, "failed"))
  ELSE {IF r.userId = u /\ r.fileId = f THEN [r EXCEPT !.status = "failed"] ELSE r
        : r \in files}

handle_failed_upload(u, f) ==
  /\ files' = FailedUpdate(u, f)
  /\ out' = [op |-> "complete_upload", user |-> u, fileId |-> f, code |-> 200,
             success |-> FALSE]
  /\ UNCHANGED <<now, s3, shares, nextFileId, nextShareId, req>>
  /\ UNCHANGED subVars

\* complete_upload.lambda_handler with uploadSuccess = true and s3Key = key:
\* get_item, the already-active return, head_object on the key of the body,
\* the conditional update, then format_file_response of the updated item.
CompleteCode(u, f, key) ==
  LET items == GetFile(u, f)
  IN  IF items = {} THEN 404
      ELSE LET r == CHOOSE x \in items : TRUE
           IN  IF r.status = "active" THEN (IF r.full THEN 200 ELSE 400)
               ELSE IF key \notin s3 THEN 404
               ELSE IF r.full THEN 200 ELSE 400

CompleteWrites(u, f, key) ==
  /\ GetFile(u, f) # {}
  /\ (CHOOSE x \in GetFile(u, f) : TRUE).status # "active"
  /\ key \in s3

CompleteUpdate(u, f) ==
  {IF r.userId = u /\ r.fileId = f THEN [r EXCEPT !.status = "active"] ELSE r
   : r \in files}

complete_upload(u, f, key) ==
  /\ files' = IF CompleteWrites(u, f, key) THEN CompleteUpdate(u, f) ELSE files
  /\ out' = [op |-> "complete_upload", user |-> u, fileId |-> f,
             code |-> CompleteCode(u, f, key), success |-> TRUE]
  /\ UNCHANGED <<now, s3, shares, nextFileId, nextShareId, req>>
  /\ UNCHANGED subVars

\* ------------------------------------------------------------------ shares
\* Items[0] of a FileIdIndex query for f: the record of user sel[f] when the
\* index holds one, any record of that fileId otherwise.
Items0(f, sel) ==
  LET items == QueryFileIdIndex(f)
  IN  IF \E r \in items : r.userId = sel[f]
      THEN CHOOSE r \in items : r.userId = sel[f]
      ELSE CHOOSE r \in items : TRUE

Selections == [FileIds -> Users]

\* A re-share that keeps the shareId of the record it replaces.
NewShareKeepsId(sid, f, u, g, rcp, e, t) ==
  [shareId |-> IF \E s \in QueryShare(f, g) : s.full
               THEN (CHOOSE s \in QueryShare(f, g) : s.full).shareId ELSE sid,
   fileId |-> f, ownerId |-> u, sharedWithUserId |-> g,
   sharedWithEmail |-> rcp.email, permissions |-> rcp.permissions,
   sharedAt |-> t, status |-> "active", expiresAt |-> e,
   ttl |-> IF e.kind = "ts" THEN Instant(e) ELSE -1,
   revokedAt |-> -1, accessCount |-> 0, full |-> TRUE]

\* The share_item handle_share_file builds (lines 206-233).
NewShare(sid, f, u, g, rcp, e, t) ==
  [shareId |-> sid, fileId |-> f, ownerId |-> u, sharedWithUserId |-> g,
   sharedWithEmail |-> rcp.email, permissions |-> rcp.permissions,
   sharedAt |-> t, status |-> "active", expiresAt |-> e,
   ttl |-> IF e.kind = "ts" THEN Instant(e) ELSE -1,
   revokedAt |-> -1, accessCount |-> 0, full |-> TRUE]

\* What update_item creates when the key holds no item: the key and the SET
\* attributes only.
StubShare(f, g, t) ==
  [shareId |-> 0, fileId |-> f, ownerId |-> NoId, sharedWithUserId |-> g,
   sharedWithEmail |-> "", permissions |-> "", sharedAt |-> -1,
   status |-> "revoked", expiresAt |-> NoExpiry, ttl |-> -1,
   revokedAt |-> t, accessCount |-> 0, full |-> FALSE]

\* check_existing_share: Items[0] of the primary-key query, or nothing.
check_existing_share(f, g) == QueryShare(f, g)

\* The duplicate check left out.
AlreadySharedNever(f, g) == FALSE

\* existing_share and existing_share["status"] == "active"
AlreadyShared(f, g) == \E s \in check_existing_share(f, g) : s.status = "active"

\* The file checks that open handle_share_file, handle_list_shares and
\* handle_revoke_share: 404 without a record, 403 when Items[0] is not the
\* caller's; handle_share_file alone then wants status active (400).
FileGate(u, f, sel, wantActive) ==
  IF QueryFileIdIndex(f) = {} THEN 404
  ELSE IF Items0(f, sel).userId # u THEN 403
  ELSE IF wantActive /\ Items0(f, sel).status # "active" THEN 400
  ELSE 200

ShareReq(u, f, recips, e) ==
  [op |-> "share", pc |-> "check", user |-> u, file |-> f, rest |-> recips,
   exp |-> e, gid |-> NoId, shared |-> <<>>, failed |-> <<>>]

ShareOut(r, sh, fl) ==
  [op |-> "share", user |-> r.user, file |-> r.file, code |-> 200,
   shared |-> sh, failed |-> fl]

\* len(recipients) > 50
RecipientCap == 50

\* The cap test with >= for >.
RecipientsRejectedAtCap(recips) == Len(recips) = 0 \/ Len(recips) >= RecipientCap

\* Lines 95-111: no recipient, or more than 50.
RecipientsRejected(recips) == Len(recips) = 0 \/ Len(recips) > RecipientCap

\* handle_share_file up to the recipient loop: the recipient count, then the
\* file checks.  A rejection is kept with the number of recipients asked for.
ShareStart(p, u, f, recips, e, sel) ==
  /\ req[p] = Idle
  /\ LET code == IF RecipientsRejected(recips) THEN 400
                 ELSE FileGate(u, f, sel, TRUE)
     IN  IF code = 200
         THEN /\ req' = [req EXCEPT ![p] = ShareReq(u, f, recips, e)]
              /\ out' = NoOut
         ELSE /\ req' = req
              /\ out' = [op |-> "share", user |-> u, file |-> f, code |-> code,
                         shared |-> <<>>, failed |-> <<>>, asked |-> Len(recips)]
  /\ UNCHANGED <<now, files, s3, shares, nextFileId, nextShareId>>
  /\ UNCHANGED subVars

\* The validation without the format test of line 166.
RecipientErrorNoFormat(rcp, userEmail) ==
  IF rcp.email = "" THEN "Missing email"
  ELSE IF Lower(rcp.email) = Lower(userEmail) THEN "Cannot share with yourself"
  ELSE ""

\* The self-share test comparing the two e-mails as typed, without lower().
RecipientErrorCaseSensitive(rcp, userEmail) ==
  IF rcp.email = "" THEN "Missing email"
  ELSE IF ~HasAt(rcp.email) \/ ~HasDot(rcp.email) THEN "Invalid email format"
  ELSE IF rcp.email = userEmail THEN "Cannot share with yourself"
  ELSE ""

\* The reason a recipient is rejected before the user lookup, "" when it is not.
RecipientError(rcp, userEmail) ==
  IF rcp.email = "" THEN "Missing email"
  ELSE IF ~HasAt(rcp.email) \/ ~HasDot(rcp.email) THEN "Invalid email format"
  ELSE IF Lower(rcp.email) = Lower(userEmail) THEN "Cannot share with yourself"
  ELSE ""

\* After one recipient: the next one, or the response.
ShareAdvance(p, r, sh, fl) ==
  LET rest == Tail(r.rest)
  IN  IF rest = <<>>
      THEN /\ req' = [req EXCEPT ![p] = Idle]
           /\ out' = ShareOut(r, sh, fl)
      ELSE /\ req' = [req EXCEPT ![p] = [r EXCEPT !.pc = "check", !.rest = rest,
                                                  !.gid = NoId, !.shared = sh,
                                                  !.failed = fl]]
           /\ out' = NoOut

\* An exception that no handler inside the loop catches reaches the outer
\* `except Exception` (lines 279-283): 500, and the lists built so far are lost.
ShareAbort(p, r) ==
  /\ req' = [req EXCEPT ![p] = Idle]
  /\ out' = [op |-> "share", user |-> r.user, file |-> r.file, code |-> 500,
             shared |-> <<>>, failed |-> <<>>]

\* One recipient of the loop, lines 158-200: validation, get_user_by_email (or
\* a fresh placeholder id), check_existing_share.  `"@" not in recipient_email`
\* raises TypeError on an email that is a number.
ShareCheck(p) ==
  /\ req[p].op = "share" /\ req[p].pc = "check"
  /\ LET r == req[p]
         rcp == Head(r.rest)
         err == RecipientError(rcp, ClaimsEmail(r.user))
         known == get_user_by_email(rcp.email)
     IN  IF rcp.email = NonString
         THEN /\ ShareAbort(p, r)
              /\ UNCHANGED nextShareId
         ELSE IF err # ""
         THEN /\ ShareAdvance(p, r, r.shared,
                    Append(r.failed, [email |-> rcp.email, error |-> err]))
              /\ UNCHANGED nextShareId
         ELSE IF known = NoId
         THEN /\ nextShareId <= MaxShares
              /\ nextShareId' = nextShareId + 1
              /\ req' = [req EXCEPT ![p] = [r EXCEPT !.pc = "put",
                                            !.gid = PendingId(nextShareId)]]
              /\ out' = NoOut
         ELSE IF AlreadyShared(r.file, known)
         THEN /\ ShareAdvance(p, r, r.shared,
                    Append(r.failed, [email |-> rcp.email,
                                      error |-> "File already shared with this user"]))
              /\ UNCHANGED nextShareId
         ELSE /\ req' = [req EXCEPT ![p] = [r EXCEPT !.pc = "put", !.gid = known]]
              /\ out' = NoOut
              /\ UNCHANGED nextShareId
  /\ UNCHANGED <<now, files, s3, shares, nextFileId>>
  /\ UNCHANGED subVars

\* Lines 202-246: a fresh shareId, the item, put_item, the `shared` entry.
SharePut(p) ==
  /\ req[p].op = "share" /\ req[p].pc = "put"
  /\ nextShareId <= MaxShares
  /\ LET r == req[p]
         rcp == Head(r.rest)
         item == NewShare(nextShareId, r.file, r.user, r.gid, rcp, r.exp, now)
     IN  /\ shares' = PutShare(shares, item)
         /\ ShareAdvance(p, r,
               Append(r.shared, [shareId |-> nextShareId, email |-> rcp.email,
                                 sharedAt |-> now, expiresAt |-> r.exp]),
               r.failed)
  /\ nextShareId' = nextShareId + 1
  /\ UNCHANGED <<now, files, s3, nextFileId>>
  /\ UNCHANGED subVars

\* put_item raises (lines 235-258).  A ClientError, the service's own refusal,
\* is caught in the loop and the recipient goes to `failed`; an exception of
\* another class (botocore's connection and timeout errors are BotoCoreError)
\* is not, and ends the request.
SharePutFails(p, kind) ==
  /\ req[p].op = "share" /\ req[p].pc = "put"
  /\ LET r == req[p]
         rcp == Head(r.rest)
     IN  IF kind = "ClientError"
         THEN ShareAdvance(p, r, r.shared,
                 Append(r.failed, [email |-> rcp.email,
                                   error |-> "Failed to create share"]))
         ELSE ShareAbort(p, r)
  /\ UNCHANGED <<now, files, s3, shares, nextFileId, nextShareId>>
  /\ UNCHANGED subVars

\* handle_revoke_share up to the update: the file checks, the ShareIdIndex
\* query, the cross-file check.
RevokeStart(p, u, f, sid, sel) ==
  /\ req[p] = Idle
  /\ LET gate == FileGate(u, f, sel, FALSE)
         items == QueryShareIdIndex(sid)
         code == IF gate # 200 THEN gate
                 ELSE IF items = {} THEN 404
                 ELSE IF (CHOOSE s \in items : TRUE).fileId # f THEN 400
                 ELSE 200
     IN  IF code = 200
         THEN /\ req' = [req EXCEPT ![p] =
                    [op |-> "revoke", pc |-> "update", user |-> u, file |-> f,
                     sid |-> sid,
                     gid |-> (CHOOSE s \in items : TRUE).sharedWithUserId]]
              /\ out' = NoOut
         ELSE /\ req' = req
              /\ out' = [op |-> "revoke", user |-> u, file |-> f, sid |-> sid,
                         code |-> code]
  /\ UNCHANGED <<now, files, s3, shares, nextFileId, nextShareId>>
  /\ UNCHANGED subVars

\* update_item(Key = (fileId, sharedWithUserId), SET status = revoked,
\* revokedAt = now), unconditional.
RevokeUpdateTable(f, g, t) ==
  IF QueryShare(f, g) = {}
  THEN PutShare(shares, StubShare(f, g, t))
  ELSE {IF s.fileId = f /\ s.sharedWithUserId = g
        THEN [s EXCEPT !.status = "revoked", !.revokedAt = t] ELSE s
        : s \in shares}

RevokeUpdate(p) ==
  /\ req[p].op = "revoke" /\ req[p].pc = "update"
  /\ shares' = RevokeUpdateTable(req[p].file, req[p].gid, now)
  /\ out' = [op |-> "revoke", user |-> req[p].user, file |-> req[p].file,
             sid |-> req[p].sid, code |-> 200]
  /\ req' = [req EXCEPT ![p] = Idle]
  /\ UNCHANGED <<now, files, s3, nextFileId, nextShareId>>
  /\ UNCHANGED subVars

\* The storage layer's time-to-live removal of an item whose ttl has passed.
TtlDelete(s) ==
  /\ s \in shares
  /\ s.ttl >= 0 /\ s.ttl < now
  /\ shares' = shares \ {s}
  /\ out' = NoOut
  /\ UNCHANGED <<now, files, s3, nextFileId, nextShareId, req>>
  /\ UNCHANGED subVars

\* ----------------------------------------------------------------- readers
\* The loop of handle_list_shares, lines 330-362: the shares it formats.
ListedShares(f, t) ==
  {s \in QuerySharesOfFile(f) :
     s.status = "active" /\ ExpiryCheck(s.expiresAt, t) = "ok"}

\* fromisoformat raises on the expiresAt of an active share of the file.
ListRaises(f) ==
  \E s \in QuerySharesOfFile(f) :
     s.status = "active" /\ ExpiryCheck(s.expiresAt, now) = "raise"

FormatShare(s) ==
  [shareId |-> s.shareId, userId |-> s.sharedWithUserId,
   email |-> s.sharedWithEmail, sharedAt |-> s.sharedAt,
   permissions |-> s.permissions, status |-> s.status,
   accessCount |-> s.accessCount, expiresAt |-> s.expiresAt]

\* handle_list_shares: the file checks, the filtered shares, then the response,
\* which reads file_item["filename"] (absent from a stub: 500).
handle_list_shares(u, f, sel) ==
  /\ LET gate == FileGate(u, f, sel, FALSE)
         code == IF gate # 200 THEN gate
                 ELSE IF ListRaises(f) \/ ~Items0(f, sel).full THEN 500
                 ELSE 200
     IN  out' = [op |-> "list_shares", user |-> u, file |-> f, code |-> code,
                 shares |-> IF code = 200
                            THEN {FormatShare(s) : s \in ListedShares(f, now)}
                            ELSE {}]
  /\ UNCHANGED <<now, files, s3, shares, nextFileId, nextShareId, req>>
  /\ UNCHANGED subVars

\* check_file_share_access: Items[0] of the primary-key query; False when there
\* is none, when it is not active, when it has expired and when the expiry test
\* raises.
check_file_share_access(f, u) ==
  \E s \in QueryShare(f, u) :
     s.status = "active" /\ ExpiryCheck(s.expiresAt, now) = "ok"

\* handle_download_url, lines 196-259: 404, 403, 400 on a status other than
\* active, 500 when the record has no s3Key, else the URL.
DownloadCode(u, f, sel) ==
  IF QueryFileIdIndex(f) = {} THEN 404
  ELSE LET item == Items0(f, sel)
       IN  IF item.userId # u /\ ~check_file_share_access(f, u) THEN 403
           ELSE IF item.status # "active" THEN 400
           ELSE IF ~item.full THEN 500
           ELSE 200

\* SET downloadCount = downloadCount + 1 on the key of Items[0]
CountDownload(item) ==
  {IF r.userId = item.userId /\ r.fileId = item.fileId
   THEN [r EXCEPT !.downloadCount = @ + 1] ELSE r : r \in files}

\* A download that counts the access on the caller's share of the file.
SharesAfterDownloadCounted(u, f) ==
  {IF s.fileId = f /\ s.sharedWithUserId = u
   THEN [s EXCEPT !.accessCount = @ + 1] ELSE s : s \in shares}

\* The shares table after handle_download_url: its only call on that table is
\* the query of check_file_share_access; it writes nothing there.
SharesAfterDownload(u, f) == shares

handle_download_url(u, f, sel) ==
  /\ LET code == DownloadCode(u, f, sel)
     IN  /\ IF code = 200
            THEN /\ Items0(f, sel).downloadCount < MaxDownloads
                 /\ files' = CountDownload(Items0(f, sel))
                 /\ shares' = SharesAfterDownload(u, f)
            ELSE /\ files' = files
                 /\ shares' = shares
         /\ out' = [op |-> "download", user |-> u, file |-> f, code |-> code,
                    issued |-> (code = 200)]
  /\ UNCHANGED <<now, s3, nextFileId, nextShareId, req>>
  /\ UNCHANGED subVars

\* The loop of handle_shared_with_me, lines 505-549: the shares it keeps.
SharedWithMeKept(u, t) ==
  {s \in QuerySharedWithUserIndex(u) :
     /\ s.status = "active"
     /\ ExpiryCheck(s.expiresAt, t) = "ok"
     /\ QueryFileIdIndex(s.fileId) # {}}

\* An exception leaves the loop: fromisoformat on an active share's expiresAt,
\* or file_item["filename"] on a stub.
SharedWithMeRaises(u, sel) ==
  \E s \in QuerySharedWithUserIndex(u) :
     /\ s.status = "active"
     /\ \/ ExpiryCheck(s.expiresAt, now) = "raise"
        \/ /\ ExpiryCheck(s.expiresAt, now) = "ok"
           /\ QueryFileIdIndex(s.fileId) # {}
           /\ ~Items0(s.fileId, sel).full

SharedEntry(s) ==
  [fileId |-> s.fileId, sharedBy |-> s.ownerId, sharedAt |-> s.sharedAt,
   permissions |-> s.permissions, expiresAt |-> s.expiresAt]

handle_shared_with_me(u, sel) ==
  /\ LET code == IF SharedWithMeRaises(u, sel) THEN 500 ELSE 200
     IN  out' = [op |-> "shared_with_me", user |-> u, code |-> code,
                 files |-> IF code = 200
                           THEN {SharedEntry(s) : s \in SharedWithMeKept(u, now)}
                           ELSE {}]
  /\ UNCHANGED <<now, files, s3, shares, nextFileId, nextShareId, req>>
  /\ UNCHANGED subVars

\* list_files.get_share_count: Select COUNT with FilterExpression status = active.
get_share_count(f) ==
  Cardinality({s \in QuerySharesOfFile(f) : s.status = "active"})

\* list_files.get_owned_files: the caller's active files with their share count.
get_owned_files(u) ==
  {[fileId |-> r.fileId, full |-> r.full, isShared |-> FALSE,
    sharedWithCount |-> get_share_count(r.fileId)]
   : r \in {x \in files : x.userId = u /\ x.status = "active"}}

\* list_files.get_shared_files: SharedWithUserIndex filtered on status = active,
\* the expiry test, then the file of each share.
SharedFilesKept(u, t) ==
  {s \in QuerySharedWithUserIndex(u) :
     /\ s.status = "active"
     /\ ExpiryCheck(s.expiresAt, t) = "ok"
     /\ QueryFileIdIndex(s.fileId) # {}}

get_shared_files(u, sel) ==
  {[fileId |-> s.fileId, full |-> Items0(s.fileId, sel).full, isShared |-> TRUE,
    sharedWithCount |-> 0]
   : s \in SharedFilesKept(u, now)}

\* fromisoformat's ValueError leaves get_shared_files and reaches
\* lambda_handler's `except ValueError` (400).
SharedFilesRaise(u) ==
  \E s \in QuerySharedWithUserIndex(u) :
     s.status = "active" /\ ExpiryCheck(s.expiresAt, now) = "raise"

\* list_files.lambda_handler for filter = owned | shared | all; format_file_item
\* reads filename and fileSize, which a stub lacks (500).
list_files(u, filter, sel) ==
  /\ LET listed == (IF filter # "shared" THEN get_owned_files(u) ELSE {})
                   \cup (IF filter # "owned" THEN get_shared_files(u, sel) ELSE {})
         code == IF filter # "owned" /\ SharedFilesRaise(u) THEN 400
                 ELSE IF \E x \in listed : ~x.full THEN 500
                 ELSE 200
     IN  out' = [op |-> "list_files", user |-> u, filter |-> filter, code |-> code,
                 files |-> IF code = 200 THEN listed ELSE {}]
  /\ UNCHANGED <<now, files, s3, shares, nextFileId, nextShareId, req>>
  /\ UNCHANGED subVars

\* ------------------------------------------------------------- submissions
\* cognito:groups as the token carries it, and user_role.lower().
Roles == {"student", "Instructor", "admin"}

RoleLower(role) == IF role = "Instructor" THEN "instructor" ELSE role

\* The role check left out.
RoleRejectedNever(role) == FALSE

\* "instructor" not in user_role.lower() and "admin" not in user_role.lower()
RoleRejected(role) ==
  RoleLower(role) \notin {"instructor"} /\ RoleLower(role) \notin {"admin"}

\* contentType and fileSize of the records handle_upload_url stores; a record
\* that update_item created carries no contentType and no filename.
ContentType(r) == "application/pdf"

FileSize(r) == 1

NoTypes == {}

NoLimit == -1

\* An assignment as the assignments table holds it; maxSubmissions, maxFileSize
\* are NoLimit and allowedFileTypes is NoTypes when the attribute is absent.
Assignment(id, instr, st, due, maxSub, types, maxSize) ==
  [assignmentId |-> id, courseId |-> "c1", instructorId |-> instr, status |-> st,
   dueDate |-> due, maxSubmissions |-> maxSub, allowedFileTypes |-> types,
   maxFileSize |-> maxSize, submissionCount |-> 0]

\* query(IndexName="AssignmentIdIndex", assignmentId = id)
QueryAssignmentIdIndex(id) == {a \in assignments : a.assignmentId = id}

\* assignment.get("maxSubmissions", 1)
MaxSubmissionsOf(a) == IF a.maxSubmissions = NoLimit THEN 1 ELSE a.maxSubmissions

\* The grading attributes of a submission; NoGrading before any were set.
NoGrading ==
  [grade |-> -1, maxGrade |-> -1, feedback |-> "", gradedAt |-> -1,
   gradedBy |-> NoId, feedbackFileId |-> 0]

\* The value of the "studentId#submissionNumber" attribute; NoSortKey on an
\* item that does not carry the attribute.
SortKey(u, n) == <<u, n>>

NoSortKey == <<NoId, 0>>

\* The submission_item of handle_submit_assignment (lines 210-224): it holds
\* studentId and submissionNumber as two attributes and no
\* "studentId#submissionNumber".
NewSubmission(sid, as, u, f, n, late, due, t) ==
  [submissionId |-> sid, assignmentId |-> as, studentId |-> u, fileId |-> f,
   submittedAt |-> t, submissionNumber |-> n, status |-> "submitted",
   isLate |-> late, dueDate |-> due, sortKey |-> NoSortKey,
   grading |-> NoGrading, full |-> TRUE]

\* What update_item creates when no item has the key it names: the key and the
\* SET attributes only.
StubSubmission(as, key, g) ==
  [submissionId |-> 0, assignmentId |-> as, studentId |-> NoId, fileId |-> 0,
   submittedAt |-> -1, submissionNumber |-> 0, status |-> "graded",
   isLate |-> FALSE, dueDate |-> NoExpiry, sortKey |-> key,
   grading |-> g, full |-> FALSE]

\* put_item of a submission_item: its submissionId is a fresh uuid and it names
\* no sort key, so it stands beside the items already stored.
PutSubmission(table, item) == table \cup {item}

\* query(assignmentId = as, FilterExpression studentId = u)
QuerySubmissionsOf(as, u) ==
  {s \in submissions : s.assignmentId = as /\ s.studentId = u}

\* query(assignmentId = as)
QuerySubmissions(as) == {s \in submissions : s.assignmentId = as}

\* query(IndexName="SubmissionIdIndex", submissionId = sid); items without the
\* attribute are not in the index.
QuerySubmissionIdIndex(sid) == {s \in submissions : s.full /\ s.submissionId = sid}

\* handle_submit_assignment up to the put (lines 102-208): the status code it
\* answers with, 0 when it goes on to write.
SubmitCode(u, as, f) ==
  LET as_items == QueryAssignmentIdIndex(as)
      a == CHOOSE x \in as_items : TRUE
      f_items == GetFile(u, f)
      r == CHOOSE x \in f_items : TRUE
  IN  IF as_items = {} THEN 404
      ELSE IF a.status # "active" THEN 400
      ELSE IF a.dueDate.kind # "ts" THEN 500
      ELSE IF f_items = {} THEN 404
      ELSE IF r.status # "active" THEN 400
      ELSE IF a.allowedFileTypes # NoTypes /\ ~r.full THEN 500
      ELSE IF a.allowedFileTypes # NoTypes
              /\ ContentType(r) \notin a.allowedFileTypes THEN 400
      ELSE IF a.maxFileSize # NoLimit /\ FileSize(r) > a.maxFileSize THEN 400
      ELSE IF Cardinality(QuerySubmissionsOf(as, u)) >= MaxSubmissionsOf(a) THEN 403
      ELSE IF ~r.full THEN 500
      ELSE 0

SubmitOut(u, as, f, code) ==
  [op |-> "submit", user |-> u, assignment |-> as, file |-> f, code |-> code,
   submissionId |-> 0, submissionNumber |-> 0, isLate |-> FALSE]

\* is_late = now > due_date, with the UTC clock relabelled as the due date's zone
IsLate(a, t) == UtcNowRelabelledAfter(t, a.dueDate)

\* The reads of handle_submit_assignment; the request then holds the count and
\* the lateness it computed.
SubmitStart(p, u, as, f) ==
  /\ req[p] = Idle
  /\ LET code == SubmitCode(u, as, f)
         a == CHOOSE x \in QueryAssignmentIdIndex(as) : TRUE
     IN  IF code = 0
         THEN /\ req' = [req EXCEPT ![p] =
                    [op |-> "submit", pc |-> "put", user |-> u, assignment |-> as,
                     file |-> f, count |-> Cardinality(QuerySubmissionsOf(as, u)),
                     late |-> IsLate(a, now), due |-> a.dueDate, sid |-> 0,
                     at |-> 0]]
              /\ out' = NoOut
         ELSE /\ req' = req
              /\ out' = SubmitOut(u, as, f, code)
  /\ UNCHANGED <<now, assignments, submissions, nextSubmissionId, accepted>>
  /\ UNCHANGED fileVars

\* Lines 205-230: a fresh submissionId, submission_number = count + 1, put_item.
SubmitPut(p) ==
  /\ req[p].op = "submit" /\ req[p].pc = "put"
  /\ LET r == req[p]
         item == NewSubmission(nextSubmissionId, r.assignment, r.user, r.file,
                               r.count + 1, r.late, r.due, now)
     IN  /\ submissions' = PutSubmission(submissions, item)
         /\ req' = [req EXCEPT ![p] = [r EXCEPT !.pc = "count",
                                                 !.sid = nextSubmissionId,
                                                 !.at = now]]
  /\ nextSubmissionId' = nextSubmissionId + 1
  /\ out' = NoOut
  /\ UNCHANGED <<now, assignments, accepted>>
  /\ UNCHANGED fileVars

\* SET submissionCount = submissionCount + 1 on the assignment's key
CountSubmission(as) ==
  {IF a.assignmentId = as THEN [a EXCEPT !.submissionCount = @ + 1] ELSE a
   : a \in assignments}

\* Lines 232-267: the counter update and the 201 response.
SubmitCount(p) ==
  /\ req[p].op = "submit" /\ req[p].pc = "count"
  /\ LET r == req[p]
         resp == [SubmitOut(r.user, r.assignment, r.file, 201) EXCEPT
                    !.submissionId = r.sid, !.submissionNumber = r.count + 1,
                    !.isLate = r.late]
     IN  /\ assignments' = CountSubmission(r.assignment)
         /\ out' = resp
         /\ accepted' = Append(accepted, resp)
  /\ req' = [req EXCEPT ![p] = Idle]
  /\ UNCHANGED <<now, submissions, nextSubmissionId>>
  /\ UNCHANGED fileVars

\* The update_item of lines 232-237 raises (throttling, a lost connection): the
\* exception reaches `except Exception` (lines 273-277) and the request is
\* answered 500; the put_item of line 229 has happened and nothing undoes it.
SubmitCountFails(p) ==
  /\ req[p].op = "submit" /\ req[p].pc = "count"
  /\ out' = SubmitOut(req[p].user, req[p].assignment, req[p].file, 500)
  /\ req' = [req EXCEPT ![p] = Idle]
  /\ UNCHANGED <<now, assignments, submissions, nextSubmissionId, accepted>>
  /\ UNCHANGED fileVars

\* The body of a grade request: hasGrade is FALSE when "grade" is missing,
\* maxGrade is 100 when the body names none, feedbackFileId 0 when it names none.
GradeBody(has, g, mg, fb, ffid) ==
  [hasGrade |-> has, grade |-> g, maxGrade |-> mg, feedback |-> fb,
   feedbackFileId |-> ffid]

\* gradedAt written with if_not_exists: the time of the first grading stays.
GradingOfFirstTimestamp(old, body, u, t) ==
  [grade |-> body.grade, maxGrade |-> body.maxGrade, feedback |-> body.feedback,
   gradedAt |-> IF old.gradedAt # -1 THEN old.gradedAt ELSE t, gradedBy |-> u,
   feedbackFileId |-> IF body.feedbackFileId # 0 THEN body.feedbackFileId
                      ELSE old.feedbackFileId]

\* The attributes the update expression sets (lines 530-544): feedbackFileId is
\* in the expression only when the body names one.
GradingOf(old, body, u, t) ==
  [grade |-> body.grade, maxGrade |-> body.maxGrade, feedback |-> body.feedback,
   gradedAt |-> t, gradedBy |-> u,
   feedbackFileId |-> IF body.feedbackFileId # 0 THEN body.feedbackFileId
                      ELSE old.feedbackFileId]

\* A grade that puts an item it finds already graded back to submitted.
GradeUpdateTableReopens(as, key, body, u, t) ==
  IF \E s \in submissions : s.assignmentId = as /\ s.sortKey = key
  THEN {IF s.assignmentId = as /\ s.sortKey = key
        THEN [s EXCEPT !.grading = GradingOf(s.grading, body, u, t),
                       !.status = "submitted"]
        ELSE s : s \in submissions}
  ELSE submissions \cup {StubSubmission(as, key, GradingOf(NoGrading, body, u, t))}

\* update_item(Key = (assignmentId, "studentId#submissionNumber")): the item
\* that carries this key is updated; when none does, one is created.
GradeUpdateTable(as, key, body, u, t) ==
  IF \E s \in submissions : s.assignmentId = as /\ s.sortKey = key
  THEN {IF s.assignmentId = as /\ s.sortKey = key
        THEN [s EXCEPT !.grading = GradingOf(s.grading, body, u, t),
                       !.status = "graded"]
        ELSE s : s \in submissions}
  ELSE submissions \cup {StubSubmission(as, key, GradingOf(NoGrading, body, u, t))}

\* handle_grade_submission up to the update (lines 442-525).
GradeCode(u, role, as, sid, body) ==
  LET as_items == QueryAssignmentIdIndex(as)
      s_items == QuerySubmissionIdIndex(sid)
  IN  IF RoleRejected(role) THEN 403
      ELSE IF ~body.hasGrade THEN 400
      ELSE IF as_items = {} THEN 404
      ELSE IF (CHOOSE a \in as_items : TRUE).instructorId # u THEN 403
      ELSE IF s_items = {} THEN 404
      ELSE IF (CHOOSE s \in s_items : TRUE).assignmentId # as THEN 400
      ELSE 200

\* handle_grade_submission.  The submission it read is never removed nor
\* re-keyed by another request, so the read and the update are one step.
handle_grade_submission(u, role, as, sid, body) ==
  /\ LET code == GradeCode(u, role, as, sid, body)
         s == CHOOSE x \in QuerySubmissionIdIndex(sid) : TRUE
     IN  /\ submissions' =
               IF code = 200
               THEN GradeUpdateTable(as, SortKey(s.studentId, s.submissionNumber),
                                     body, u, now)
               ELSE submissions
         /\ out' = [op |-> "grade", user |-> u, role |-> role, assignment |-> as,
                    submissionId |-> sid, code |-> code, body |-> body]
  /\ UNCHANGED <<now, assignments, nextSubmissionId, accepted, req>>
  /\ UNCHANGED fileVars

\* format_submission reads submissionId, studentId, ... of the item: KeyError
\* on an item that update_item created.
FormatSubmission(s) ==
  [submissionId |-> s.submissionId, studentId |-> s.studentId,
   fileId |-> s.fileId, submittedAt |-> s.submittedAt,
   submissionNumber |-> s.submissionNumber, status |-> s.status,
   isLate |-> s.isLate, grading |-> s.grading]

\* The statistics dictionary (lines 361-369) over the items `all` that the
\* query of lines 357-359 returned.
StatisticsOf(all) ==
  [totalSubmissions |-> Cardinality(all),
   onTime |-> Cardinality({s \in all : ~s.isLate}),
   late |-> Cardinality({s \in all : s.isLate}),
   graded |-> Cardinality({s \in all : s.status = "graded"}),
   pending |-> Cardinality({s \in all : s.status = "submitted"})]

\* The statistics block of handle_list_submissions (lines 356-369) when the
\* items of the assignment fit in one query response.
Statistics(as) == StatisticsOf(QuerySubmissions(as))

NoStatistics ==
  [totalSubmissions |-> 0, onTime |-> 0, late |-> 0, graded |-> 0, pending |-> 0]

\* The page of handle_list_submissions: the items of the assignment that pass
\* the status filter ("" for none); the default limit of 50 is above the number
\* of items the model stores.
ListedSubmissions(as, filter) ==
  {s \in QuerySubmissions(as) : filter = "" \/ s.status = filter}

ListSubmissionsCode(u, role, as, filter) ==
  LET as_items == QueryAssignmentIdIndex(as)
  IN  IF RoleRejected(role) THEN 403
      ELSE IF as_items = {} THEN 404
      ELSE IF (CHOOSE a \in as_items : TRUE).instructorId # u THEN 403
      ELSE IF \E s \in ListedSubmissions(as, filter) : ~s.full THEN 500
      ELSE 200

handle_list_submissions(u, role, as, filter) ==
  /\ LET code == ListSubmissionsCode(u, role, as, filter)
     IN  out' = [op |-> "list_submissions", user |-> u, role |-> role,
                 assignment |-> as, code |-> code,
                 submissions |-> IF code = 200
                                 THEN {FormatSubmission(s) :
                                         s \in ListedSubmissions(as, filter)}
                                 ELSE {},
                 statistics |-> IF code = 200 THEN Statistics(as)
                                ELSE NoStatistics]
  /\ UNCHANGED <<now, assignments, submissions, nextSubmissionId, accepted, req>>
  /\ UNCHANGED fileVars

\* One query call returns at most 1 MB of items; the rest is behind
\* LastEvaluatedKey, for a further call.  QueryCap is the number of items of an
\* assignment that fit in 1 MB.
QueryCap == 2

\* The items one query(assignmentId = as) call can evaluate with Limit = limit:
\* as many as the limit and the 1 MB allow when it starts at the first item,
\* and possibly fewer when it starts behind an ExclusiveStartKey.  The key
\* order of the items is not modelled: any items of that number.
QueryPages(as, limit, fromStart) ==
  LET all == QuerySubmissions(as)
      fits == IF limit <= QueryCap THEN limit ELSE QueryCap
      most == IF fits <= Cardinality(all) THEN fits ELSE Cardinality(all)
  IN  {pg \in SUBSET all :
         IF fromStart THEN Cardinality(pg) = most ELSE Cardinality(pg) <= most}

\* The query of lines 357-359 has no Limit and follows no LastEvaluatedKey.
NoQueryLimit == 1000

\* handle_list_submissions with its query parameters: the page query with
\* Limit, FilterExpression and ExclusiveStartKey (lines 339-354), the second
\* query for the statistics (lines 357-359), format_submission of the page.
handle_list_submissions_page(u, role, as, filter, limit, fromStart) ==
  /\ \E evaluated \in QueryPages(as, limit, fromStart),
        all \in QueryPages(as, NoQueryLimit, TRUE) :
       LET page == {s \in evaluated : filter = "" \/ s.status = filter}
           gate == ListSubmissionsCode(u, role, as, filter)
           code == IF gate \in {403, 404} THEN gate
                   ELSE IF \E s \in page : ~s.full THEN 500
                   ELSE 200
       IN  out' = [op |-> "list_submissions", user |-> u, role |-> role,
                   assignment |-> as, code |-> code, filter |-> filter,
                   limit |-> limit,
                   submissions |-> IF code = 200
                                   THEN {FormatSubmission(s) : s \in page} ELSE {},
                   statistics |-> IF code = 200 THEN StatisticsOf(all)
                                  ELSE NoStatistics]
  /\ UNCHANGED <<now, assignments, submissions, nextSubmissionId, accepted, req>>
  /\ UNCHANGED fileVars

\* handle_get_my_submissions: the caller's items of the assignment.
handle_get_my_submissions(u, as) ==
  /\ out' = [op |-> "my_submissions", user |-> u, assignment |-> as, code |-> 200,
             submissions |-> {FormatSubmission(s) : s \in QuerySubmissionsOf(as, u)}]
  /\ UNCHANGED <<now, assignments, submissions, nextSubmissionId, accepted, req>>
  /\ UNCHANGED fileVars

\* ----------------------------------------------------------- notifications
\* With ENABLE_NOTIFICATIONS and SNS_TOPIC_ARN set, createShares, submit and
\* grade call their sender right after the write.  `published` is the outcome
\* of sns_client.publish: TRUE when it returned, FALSE when it raised.
NoDispatch == [kind |-> "none", published |-> TRUE]

Dispatch(kind, published) == [kind |-> kind, published |-> published]

\* A sender without its try/except: the exception of publish leaves it.
SendPropagates(published) == IF published THEN "returned" ELSE "raised"

\* The three senders: publish inside try, `except Exception` logs the error,
\* and the function returns None either way.
send_share_notification(published) == "returned"

send_submission_notification(published) == "returned"

send_grade_notification(published) == "returned"

\* SharePut with the notification of lines 248-252: put_item, the `shared`
\* entry, then the sender; an exception leaving the sender would end the
\* request at the outer handler with the share written.
SharePutNotify(p, published) ==
  /\ req[p].op = "share" /\ req[p].pc = "put"
  /\ nextShareId <= MaxShares
  /\ LET r == req[p]
         rcp == Head(r.rest)
         item == NewShare(nextShareId, r.file, r.user, r.gid, rcp, r.exp, now)
     IN  /\ shares' = PutShare(shares, item)
         /\ IF send_share_notification(published) = "returned"
            THEN ShareAdvance(p, r,
                    Append(r.shared, [shareId |-> nextShareId, email |-> rcp.email,
                                      sharedAt |-> now, expiresAt |-> r.exp]),
                    r.failed)
            ELSE ShareAbort(p, r)
  /\ nextShareId' = nextShareId + 1
  /\ sns' = Dispatch("share", published)
  /\ UNCHANGED <<now, files, s3, nextFileId>>
  /\ UNCHANGED <<assignments, submissions, nextSubmissionId, accepted>>

\* SubmitCount with the notification of lines 239-243, between the counter
\* update and the 201 response.
SubmitCountNotify(p, published) ==
  /\ req[p].op = "submit" /\ req[p].pc = "count"
  /\ LET r == req[p]
         resp == [SubmitOut(r.user, r.assignment, r.file, 201) EXCEPT
                    !.submissionId = r.sid, !.submissionNumber = r.count + 1,
                    !.isLate = r.late]
     IN  /\ assignments' = CountSubmission(r.assignment)
         /\ IF send_submission_notification(published) = "returned"
            THEN /\ out' = resp
                 /\ accepted' = Append(accepted, resp)
            ELSE /\ out' = SubmitOut(r.user, r.assignment, r.file, 500)
                 /\ accepted' = accepted
  /\ req' = [req EXCEPT ![p] = Idle]
  /\ sns' = Dispatch("submission", published)
  /\ UNCHANGED <<now, submissions, nextSubmissionId>>
  /\ UNCHANGED <<files, s3, shares, nextFileId, nextShareId>>

\* handle_grade_submission with the notification of lines 556-560, after
\* update_item and before the 200 response.
GradeNotify(u, role, as, sid, body, published) ==
  /\ LET code == GradeCode(u, role, as, sid, body)
         s == CHOOSE x \in QuerySubmissionIdIndex(sid) : TRUE
         sent == send_grade_notification(published) = "returned"
     IN  /\ submissions' =
               IF code = 200
               THEN GradeUpdateTable(as, SortKey(s.studentId, s.submissionNumber),
                                     body, u, now)
               ELSE submissions
         /\ out' = [op |-> "grade", user |-> u, role |-> role, assignment |-> as,
                    submissionId |-> sid,
                    code |-> IF code = 200 /\ ~sent THEN 500 ELSE code,
                    body |-> body]
         /\ sns' = IF code = 200 THEN Dispatch("grade", published) ELSE sns
  /\ UNCHANGED <<now, assignments, nextSubmissionId, accepted, req>>
  /\ UNCHANGED <<files, s3, shares, nextFileId, nextShareId>>

\* ------------------------------------------------------------------- clock
Tick ==
  /\ now < MaxTime
  /\ now' = now + 1
  /\ out' = NoOut
  /\ UNCHANGED <<files, s3, shares, nextFileId, nextShareId, req>>
  /\ UNCHANGED subVars

\* No assignment exists, nothing was submitted and nothing was published.
NoSubmissions ==
  /\ assignments = {}
  /\ submissions = {}
  /\ nextSubmissionId = 1
  /\ accepted = <<>>
  /\ sns = NoDispatch

Init ==
  /\ now = 0
  /\ files = {}
  /\ s3 = {}
  /\ shares = {}
  /\ nextFileId = 1
  /\ nextShareId = 1
  /\ req = [p \in Procs |-> Idle]
  /\ out = NoOut
  /\ NoSubmissions

\* ------------------------------------------------------------------ inputs
Rcp(e, perm) == [email |-> e, permissions |-> perm]

RecipientLists ==
  {<<Rcp("b@x.io", "read")>>, <<Rcp("B@x.io", "write")>>, <<Rcp("A@x.io", "read")>>,
   <<Rcp("n@x.io", "read")>>, <<Rcp("n@x", "read"), Rcp("b@x.io", "read")>>,
   <<Rcp("", "read")>>}

ShareIds == 1..MaxShares

AllKeys == {S3Key(u, f) : u \in Users, f \in FileIds}

\* The file ids a client can name: those handle_upload_url has handed out (a
\* uuid4 not yet drawn cannot be named).
IssuedFileIds == 1..(nextFileId - 1)

\* The whole backend, one worker: uploads, completions, shares, readers.
Next ==
  \/ \E u \in Users : handle_upload_url(u)
  \/ \E u \in Users, f \in IssuedFileIds : S3Upload(u, f)
  \/ \E u \in Users, f \in IssuedFileIds : handle_failed_upload(u, f)
  \/ \E u \in Users, f \in IssuedFileIds, k \in AllKeys : complete_upload(u, f, k)
  \/ \E u \in Users, f \in IssuedFileIds, sel \in Selections,
        l \in {<<Rcp("b@x.io", "read")>>, <<Rcp("a@x.io", "read")>>} :
       ShareStart(1, u, f, l, NoExpiry, sel)
  \/ ShareCheck(1)
  \/ SharePut(1)
  \/ \E u \in Users, f \in IssuedFileIds, sid \in ShareIds, sel \in Selections :
       RevokeStart(1, u, f, sid, sel)
  \/ RevokeUpdate(1)
  \/ \E u \in Users, f \in IssuedFileIds, sel \in Selections :
       handle_list_shares(u, f, sel)
  \/ \E u \in Users, f \in IssuedFileIds, sel \in Selections :
       handle_download_url(u, f, sel)

Spec == Init /\ [][Next]_vars

\* The share lifecycle on one uploaded, active file of user a, two workers,
\* the clock and the time-to-live removal.
ShareInit ==
  /\ now = 0
  /\ files = {[NewFile("a", 1) EXCEPT !.status = "active"]}
  /\ s3 = {S3Key("a", 1)}
  /\ shares = {}
  /\ nextFileId = 2
  /\ nextShareId = 1
  /\ req = [p \in Procs |-> Idle]
  /\ out = NoOut
  /\ NoSubmissions

\* Items[0] when every fileId has one record: the selection is immaterial.
OnlyRecord == [f \in FileIds |-> "a"]

ShareNext ==
  \/ Tick
  \/ \E s \in shares : TtlDelete(s)
  \/ \E u \in Users, l \in RecipientLists, e \in ExpiryInputs :
       ShareStart(1, u, 1, l, e, OnlyRecord)
  \/ ShareCheck(1)
  \/ SharePut(1)
  \/ \E u \in Users, sid \in ShareIds : RevokeStart(1, u, 1, sid, OnlyRecord)
  \/ RevokeUpdate(1)
  \/ \E u \in Users : handle_list_shares(u, 1, OnlyRecord)
  \/ \E u \in Users : handle_download_url(u, 1, OnlyRecord)
  \/ \E u \in Users : handle_shared_with_me(u, OnlyRecord)
  \/ \E u \in Users, filter \in {"owned", "shared", "all"} :
       list_files(u, filter, OnlyRecord)

ShareSpec == ShareInit /\ [][ShareNext]_vars

\* Concurrent createShares and revokeShare requests of the owner on that file:
\* two workers, every interleaving of their store calls.
RaceNext ==
  \/ \E p \in Procs, l \in RecipientLists : ShareStart(p, "a", 1, l, NoExpiry, OnlyRecord)
  \/ \E p \in Procs : ShareCheck(p)
  \/ \E p \in Procs : SharePut(p)
  \/ \E p \in Procs, sid \in ShareIds : RevokeStart(p, "a", 1, sid, OnlyRecord)
  \/ \E p \in Procs : RevokeUpdate(p)

RaceSpec == ShareInit /\ [][RaceNext]_vars

\* Submissions and grading: file 1 of a is active and shared with b; b teaches
\* assignment 1, whose due date and limits are one of four configurations, and
\* a teaches the closed assignment 2.  Two workers, so two submits interleave.
AssignmentTables ==
  {{x, Assignment(2, "a", "closed", Ts(0, 0), NoLimit, NoTypes, NoLimit)} :
     x \in {Assignment(1, "b", "active", Ts(0, 0), NoLimit, NoTypes, NoLimit),
            Assignment(1, "b", "active", Ts(1, 1), 2, NoTypes, NoLimit),
            Assignment(1, "b", "active", Ts(0, 0), 2, {"image/png"}, NoLimit),
            Assignment(1, "b", "active", Ts(1, 1), NoLimit, NoTypes, 0)}}

SubmitInit ==
  /\ now = 0
  /\ files = {[NewFile("a", 1) EXCEPT !.status = "active"]}
  /\ s3 = {S3Key("a", 1)}
  /\ shares = {NewShare(1, 1, "a", "b", Rcp("b@x.io", "read"), NoExpiry, 0)}
  /\ nextFileId = 2
  /\ nextShareId = 2
  /\ req = [p \in Procs |-> Idle]
  /\ out = NoOut
  /\ assignments \in AssignmentTables
  /\ submissions = {}
  /\ nextSubmissionId = 1
  /\ accepted = <<>>
  /\ sns = NoDispatch

\* The assignment ids a client names: the two that exist and one that does not.
AssignmentInputs == {1, 2, 3}

SubmissionIds == 1..MaxSubmissionIds

GradeBodies ==
  {GradeBody(TRUE, 1, 100, "good", 7), GradeBody(TRUE, 2, 10, "", 0),
   GradeBody(FALSE, 0, 100, "", 0)}

\* Concurrent submits: two workers, the uploads that change the file records
\* under them, and the student's own listing.
SubmitNext ==
  \/ \E u \in Users : handle_failed_upload(u, 1)
  \/ \E u \in Users : complete_upload(u, 1, S3Key("a", 1))
  \/ \E p \in Procs, u \in Users, as \in AssignmentInputs :
       /\ nextSubmissionId <= MaxSubmissionIds
       /\ SubmitStart(p, u, as, 1)
  \/ \E p \in Procs : nextSubmissionId <= MaxSubmissionIds /\ SubmitPut(p)
  \/ \E p \in Procs : SubmitCount(p)
  \/ \E u \in Users, as \in AssignmentInputs : handle_get_my_submissions(u, as)

SubmitSpec == SubmitInit /\ [][SubmitNext]_vars

\* Grading: one worker submits as time passes, any user with any role grades
\* and lists.
GradeNext ==
  \/ Tick
  \/ \E u \in Users, as \in AssignmentInputs :
       /\ nextSubmissionId <= MaxSubmissionIds
       /\ SubmitStart(1, u, as, 1)
  \/ nextSubmissionId <= MaxSubmissionIds /\ SubmitPut(1)
  \/ SubmitCount(1)
  \/ \E u \in Users, role \in Roles, as \in AssignmentInputs, sid \in SubmissionIds,
        body \in GradeBodies : handle_grade_submission(u, role, as, sid, body)
  \/ \E u \in Users, role \in Roles, as \in AssignmentInputs,
        filter \in {"", "submitted"} : handle_list_submissions(u, role, as, filter)

GradeSpec == SubmitInit /\ [][GradeNext]_vars

\* createShares in batches: the owner shares file 1 with every list of up to
\* MaxRecipients recipients, well-formed or not, and put_item may fail.
BatchRecipients ==
  {Rcp("b@x.io", "read"), Rcp("n@x.io", "read"), Rcp("n@x", "read"),
   Rcp("", "read"), Rcp(NonString, "read")}

BatchLists ==
  UNION {[1..n -> BatchRecipients] : n \in 1..MaxRecipients}

BatchNext ==
  \/ \E l \in BatchLists : ShareStart(1, "a", 1, l, NoExpiry, OnlyRecord)
  \/ ShareCheck(1)
  \/ SharePut(1)
  \/ \E kind \in {"ClientError", "BotoCoreError"} : SharePutFails(1, kind)

BatchSpec == ShareInit /\ [][BatchNext]_vars

\* Listing a large assignment: up to three submissions of student a to an
\* assignment that allows three, the first graded by its instructor b, and
\* the assignment listed page by page, with and without a status filter.
StatsInit ==
  /\ now = 0
  /\ files = {[NewFile("a", 1) EXCEPT !.status = "active"]}
  /\ s3 = {S3Key("a", 1)}
  /\ shares = {}
  /\ nextFileId = 2
  /\ nextShareId = 1
  /\ req = [p \in Procs |-> Idle]
  /\ out = NoOut
  /\ assignments = {Assignment(1, "b", "active", Ts(0, 0), 3, NoTypes, NoLimit)}
  /\ submissions = {}
  /\ nextSubmissionId = 1
  /\ accepted = <<>>
  /\ sns = NoDispatch

StatsNext ==
  \/ Tick
  \/ nextSubmissionId <= MaxSubmissionIds /\ SubmitStart(1, "a", 1, 1)
  \/ nextSubmissionId <= MaxSubmissionIds /\ SubmitPut(1)
  \/ SubmitCount(1)
  \/ handle_grade_submission("b", "Instructor", 1, 1,
                             GradeBody(TRUE, 1, 100, "good", 7))
  \/ \E filter \in {"", "submitted"}, limit \in {1, 50},
        fromStart \in BOOLEAN :
       handle_list_submissions_page("b", "Instructor", 1, filter, limit, fromStart)

StatsSpec == StatsInit /\ [][StatsNext]_vars

\* createShares at the recipient cap: lists of one recipient repeated 49, 50
\* and 51 times and the empty list, for file 1, from its owner and from b.
CapLists ==
  {[i \in 1..n |-> rcp] : rcp \in {Rcp("b@x.io", "read"), Rcp("n@x", "read")},
                      n \in {0, RecipientCap - 1, RecipientCap, RecipientCap + 1}}

CapNext ==
  \/ \E u \in Users, l \in CapLists : ShareStart(1, u, 1, l, NoExpiry, OnlyRecord)
  \/ ShareCheck(1)
  \/ SharePut(1)

CapSpec == ShareInit /\ [][CapNext]_vars

\* Two uploads of one user: a was issued credentials for the files 1 and 2,
\* uploads either object or none, and any user reports completions and
\* failures for either id, naming either key.
UploadInit ==
  /\ now = 0
  /\ files = {NewFile("a", 1), NewFile("a", 2)}
  /\ s3 = {}
  /\ shares = {}
  /\ nextFileId = 3
  /\ nextShareId = 1
  /\ req = [p \in Procs |-> Idle]
  /\ out = NoOut
  /\ NoSubmissions

UploadNext ==
  \/ \E f \in {1, 2} : S3Upload("a", f)
  \/ \E u \in Users, f \in {1, 2} : handle_failed_upload(u, f)
  \/ \E u \in Users, f \in {1, 2}, k \in {S3Key("a", 1), S3Key("a", 2)} :
       complete_upload(u, f, k)

UploadSpec == UploadInit /\ [][UploadNext]_vars

\* Notifications enabled: the owner shares file 1, a student submits it, the
\* instructor grades, and every publish either returns or raises.
NotifyInit ==
  /\ now = 0
  /\ files = {[NewFile("a", 1) EXCEPT !.status = "active"]}
  /\ s3 = {S3Key("a", 1)}
  /\ shares = {}
  /\ nextFileId = 2
  /\ nextShareId = 1
  /\ req = [p \in Procs |-> Idle]
  /\ out = NoOut
  /\ assignments \in AssignmentTables
  /\ submissions = {}
  /\ nextSubmissionId = 1
  /\ accepted = <<>>
  /\ sns = NoDispatch

NotifyNext ==
  \/ \E l \in {<<Rcp("b@x.io", "read")>>,
               <<Rcp("n@x", "read"), Rcp("b@x.io", "read")>>} :
       ShareStart(1, "a", 1, l, NoExpiry, OnlyRecord)
  \/ ShareCheck(1)
  \/ \E published \in BOOLEAN : SharePutNotify(1, published)
  \/ \E as \in AssignmentInputs :
       /\ nextSubmissionId <= MaxSubmissionIds
       /\ SubmitStart(2, "a", as, 1)
  \/ nextSubmissionId <= MaxSubmissionIds /\ SubmitPut(2)
  \/ \E published \in BOOLEAN : SubmitCountNotify(2, published)
  \/ \E u \in Users, sid \in SubmissionIds, body \in GradeBodies,
        published \in BOOLEAN : GradeNotify(u, "Instructor", 1, sid, body, published)

NotifySpec == NotifyInit /\ [][NotifyNext]_vars

\* Probing for files: on top of the owner's shares and revocations of file 1,
\* every user sends the four file-addressed requests for file 1 and for a file
\* id that no record carries.
AbsentFileId == MaxFiles + 1

ProbeNext ==
  \/ \E u \in Users, f \in {1, AbsentFileId},
        l \in {<<Rcp("b@x.io", "read")>>, <<Rcp("n@x.io", "read")>>} :
       ShareStart(1, u, f, l, NoExpiry, OnlyRecord)
  \/ ShareCheck(1)
  \/ SharePut(1)
  \/ \E u \in Users, f \in {1, AbsentFileId}, sid \in ShareIds :
       RevokeStart(1, u, f, sid, OnlyRecord)
  \/ RevokeUpdate(1)
  \/ \E u \in Users, f \in {1, AbsentFileId} : handle_list_shares(u, f, OnlyRecord)
  \/ \E u \in Users, f \in {1, AbsentFileId} : handle_download_url(u, f, OnlyRecord)

ProbeSpec == ShareInit /\ [][ProbeNext]_vars

\* Counting submissions: two workers submit file 1 for student a, and the
\* counter update of either may fail.
CountNext ==
  \/ \E p \in Procs, as \in AssignmentInputs :
       /\ nextSubmissionId <= MaxSubmissionIds
       /\ SubmitStart(p, "a", as, 1)
  \/ \E p \in Procs : nextSubmissionId <= MaxSubmissionIds /\ SubmitPut(p)
  \/ \E p \in Procs : SubmitCount(p)
  \/ \E p \in Procs : SubmitCountFails(p)

CountSpec == SubmitInit /\ [][CountNext]_vars

\* Overlapping createShares of the owner on file 1, two workers, with lists
\* that go on to a further recipient after the one they share with; no
\* revocation and no expiry.
OverlapNext ==
  \/ \E p \in Procs, l \in {<<Rcp("b@x.io", "read")>>,
                             <<Rcp("b@x.io", "write"), Rcp("n@x", "read")>>,
                             <<Rcp("B@x.io", "read"), Rcp("", "read")>>} :
       ShareStart(p, "a", 1, l, NoExpiry, OnlyRecord)
  \/ \E p \in Procs : ShareCheck(p)
  \/ \E p \in Procs : SharePut(p)

OverlapSpec == ShareInit /\ [][OverlapNext]_vars

\* Sharing again with an unregistered address: file 1 of a is active and an
\* earlier createShares for n@x.io has been answered, its share stored under
\* the placeholder id drawn then; the owner's requests of RaceNext follow.
UnregInit ==
  /\ now = 0
  /\ files = {[NewFile("a", 1) EXCEPT !.status = "active"]}
  /\ s3 = {S3Key("a", 1)}
  /\ shares = {NewShare(MaxShares + 1, 1, "a", PendingId(Len(PendingNames)),
                        Rcp("n@x.io", "read"), NoExpiry, 0)}
  /\ nextFileId = 2
  /\ nextShareId = 1
  /\ req = [p \in Procs |-> Idle]
  /\ out = NoOut
  /\ NoSubmissions

UnregSpec == UnregInit /\ [][RaceNext]_vars

\* ================================================================== claims
\* An expiresAt that denotes an instant before t.
Past(e, t) == e.kind = "ts" /\ t > Instant(e)

SameKey(s, t) == s.fileId = t.fileId /\ s.sharedWithUserId = t.sharedWithUserId

\* The user the upload credentials of f were issued to.
CredOwners(f) == {r.userId : r \in {x \in files : x.fileId = f /\ x.full}}

\* The worker whose request this step advances.
Acts(p) == req[p] # Idle /\ req'[p] # req[p]

\* The shares of f that are stored active and not past their expiresAt.
LiveShares(f) ==
  {s \in QuerySharesOfFile(f) : s.status = "active" /\ ~Past(s.expiresAt, now)}

\* The failed and shared lists of the request worker p is in after this step:
\* those of the response when the step completes it.
FailedAfter(p) == IF req'[p] = Idle THEN out'.failed ELSE req'[p].failed

SharedAfter(p) == IF req'[p] = Idle THEN out'.shared ELSE req'[p].shared

\* The accepted submissions of student u for assignment as, in acceptance order.
AcceptedOf(as, u) ==
  SelectSeq(accepted, LAMBDA x : x.assignment = as /\ x.user = u)

\* The same stored item in two states: submit's items are told apart by their
\* submissionId, the items update_item created by their key.
SameSubmission(s, t) ==
  /\ s.full = t.full /\ s.assignmentId = t.assignmentId
  /\ s.submissionId = t.submissionId /\ s.sortKey = t.sortKey

\* The caller of the last answered request has a role with instructor or admin
\* in it and is the instructor of record of the assignment the request names.
Qualified(o) ==
  /\ o.role \in {"Instructor", "admin"}
  /\ \E a \in assignments : a.assignmentId = o.assignment /\ a.instructorId = o.user

\* User u has no record of file f and no share of f was ever written for u.
NoAccess(u, f) ==
  /\ \A r \in files : ~(r.fileId = f /\ r.userId = u)
  /\ QueryShare(f, u) = {}

\* C1: in every reachable state, under every interleaving of createShares and
\* revokeShare, at most one Share record with status active exists per
\* (fileId, grantee user id).
C1_AtMostOneActivePerGrantee ==
  \A s, t \in shares :
     (SameKey(s, t) /\ s.status = "active" /\ t.status = "active") => s = t

\* Two createShares for (file 1, b) run concurrently: one has written its share
\* and answered, the other has passed the duplicate check and is about to write.
C1_Witness ==
  /\ out.op = "share" /\ Len(out.shared) = 1
  /\ \E s \in shares : /\ s.sharedWithUserId = "b" /\ s.status = "active"
                       /\ s.shareId = out.shared[1].shareId
  /\ \E p \in Procs : req[p].op = "share" /\ req[p].pc = "put" /\ req[p].gid = "b"

\* C2: a download URL is issued to p for f exactly when f's record is active
\* and p is its owner or holds an active share that is not past; otherwise no
\* URL is issued and the files table is unchanged.
C2_DownloadIffEntitled ==
  [][out'.op = "download" =>
       /\ out'.issued <=>
            \E r \in files :
               /\ r.fileId = out'.file /\ r.full /\ r.status = "active"
               /\ \/ r.userId = out'.user
                  \/ \E s \in QueryShare(out'.file, out'.user) :
                        s.status = "active" /\ ~Past(s.expiresAt, now)
       /\ ~out'.issued => files' = files]_vars

\* C3: only the user the upload credentials of f went to creates, lists or
\* changes shares of f.
C3_OnlyOwnerTouchesShares ==
  [][/\ \A f \in FileIds :
          (QuerySharesOfFile(f))' # QuerySharesOfFile(f) =>
             \E p \in Procs : Acts(p) /\ req[p].file = f
                              /\ req[p].user \in CredOwners(f)
     /\ (out'.op = "list_shares" /\ out'.code = 200) =>
          out'.user \in CredOwners(out'.file)]_vars

\* C4: while the record of (f, g) is the revoked one (revokeShare succeeded and
\* no share was created for the pair since), listShares(f) does not return it
\* and a download request of g for f is denied.
C4_RevokedExcludedAndDenied ==
  \A s \in shares :
     s.status = "revoked" =>
       /\ (out.op = "list_shares" /\ out.file = s.fileId) =>
            \A x \in out.shares : x.userId # s.sharedWithUserId
       /\ (out.op = "download" /\ out.file = s.fileId
           /\ out.user = s.sharedWithUserId) => ~out.issued

\* C5 as stated: the record stored for a (file, grantee) pair, once revoked, is
\* never active in a later state.
C5_RecordNeverReactivated ==
  [][\A s \in shares : s.status = "revoked" =>
        \A t \in shares' : SameKey(s, t) => t.status = "revoked"]_vars

\* C5 amended: a Share, identified by its shareId, never goes from revoked to
\* active; a re-share replaces the revoked record of the pair by a new Share
\* with a new shareId.
C5_ShareIdNeverReactivated ==
  [][\A s \in shares : (s.full /\ s.status = "revoked") =>
        \A t \in shares' : (t.full /\ t.shareId = s.shareId) =>
                              t.status = "revoked"]_vars

\* The first share of (file 1, b) was revoked and the pair was shared again:
\* with one worker and no removal, shareId 1 can only have been replaced.
C5_Witness ==
  /\ nextShareId = 3
  /\ \A p \in Procs : req[p] = Idle
  /\ \E s \in shares : /\ shares = {s} /\ s.shareId = 2 /\ s.status = "active"

\* C6: a share whose expiresAt is past is ignored by every reader: the download
\* check, listShares, listSharedWithMe, the shared-files listing, the owned
\* files' share count and the duplicate check of createShares.
C6_ExpiredIgnoredEverywhere ==
  /\ (out.op = "download" /\ out.issued /\ out.user \notin CredOwners(out.file)) =>
       \E s \in LiveShares(out.file) : s.sharedWithUserId = out.user
  /\ (out.op = "list_shares" /\ out.code = 200) =>
       \A x \in out.shares : \E s \in LiveShares(out.file) : s.shareId = x.shareId
  /\ (out.op = "shared_with_me" /\ out.code = 200) =>
       \A x \in out.files : \E s \in LiveShares(x.fileId) : s.sharedWithUserId = out.user
  /\ (out.op = "list_files" /\ out.code = 200) =>
       \A x \in out.files :
          IF x.isShared
          THEN \E s \in LiveShares(x.fileId) : s.sharedWithUserId = out.user
          ELSE x.sharedWithCount = Cardinality(LiveShares(x.fileId))
  /\ (out.op = "share" /\ out.code = 200) =>
       \A i \in 1..Len(out.failed) :
          out.failed[i].error = "File already shared with this user" =>
             \E s \in LiveShares(out.file) :
                s.sharedWithUserId = get_user_by_email(out.failed[i].email)

\* C7: listShares and listSharedWithMe return only shares that are stored
\* active and whose expiresAt, if set, is not past; listSharedWithMe only
\* shares granted to the caller.
C7_ListsOnlyLiveShares ==
  /\ (out.op = "list_shares" /\ out.code = 200) =>
       \A x \in out.shares :
          \E s \in QuerySharesOfFile(out.file) :
             /\ s.shareId = x.shareId /\ s.status = "active"
             /\ ~Past(s.expiresAt, now)
  /\ (out.op = "shared_with_me" /\ out.code = 200) =>
       \A x \in out.files :
          \E s \in QuerySharesOfFile(x.fileId) :
             /\ s.sharedWithUserId = out.user /\ s.status = "active"
             /\ ~Past(s.expiresAt, now)

C9_GranteeIsNotOwner ==
  \A s \in shares : s.full => s.sharedWithUserId # s.ownerId

\* The owner's own address in another case was offered and rejected, and a
\* share to another user is stored.
C9_Witness ==
  /\ out.op = "share" /\ out.code = 200 /\ Len(out.failed) = 1
  /\ out.failed[1] = [email |-> "A@x.io", error |-> "Cannot share with yourself"]
  /\ \E s \in shares : s.full /\ s.ownerId = "a"

\* C10: a File record whose status is active or failed keeps that status.
C10_FileStatusFinal ==
  [][\A r \in files : r.status \in {"active", "failed"} =>
        \A q \in files' :
           (q.userId = r.userId /\ q.fileId = r.fileId) => q.status = r.status]_vars

\* C11: no two File records have the same fileId: a lookup by fileId alone
\* matches at most one record, whatever upload-URL and complete_upload requests
\* were made and by whom.
C11_FileIdUnique ==
  \A r, q \in files : r.fileId = q.fileId => r = q

\* C12: for each (assignment, student) pair no two accepted submissions carry
\* the same submissionNumber, also when two submits of the same student run
\* concurrently, and once every submit has answered the numbers accepted are
\* 1, 2, 3, ... without a gap.
C12_NumbersInAcceptanceOrder ==
  \A as \in AssignmentInputs, u \in Users :
     LET seq == AcceptedOf(as, u)
     IN  /\ \A i, j \in 1..Len(seq) :
               seq[i].submissionNumber = seq[j].submissionNumber => i = j
         /\ (\A p \in Procs : req[p] = Idle) =>
               {seq[i].submissionNumber : i \in 1..Len(seq)} = 1..Len(seq)

\* C13: for every assignment and student the accepted submissions and the
\* stored Submission records of the pair never outnumber the assignment's
\* maxSubmissions (1 when not configured), also under concurrent submits, and
\* a submit rejected with 'limit reached' writes no record.
C13_NeverMoreThanMax ==
  [][/\ \A a \in assignments', u \in Users :
          /\ Len(AcceptedOf(a.assignmentId, u)') <= MaxSubmissionsOf(a)
          /\ Cardinality(QuerySubmissionsOf(a.assignmentId, u)') <= MaxSubmissionsOf(a)
     /\ (out'.op = "submit" /\ out'.code = 403) => submissions' = submissions]_vars

C15_GradeFieldsFrozen ==
  [][\A s \in submissions, t \in submissions' :
        (SameSubmission(s, t) /\ s.status = "graded") =>
           /\ t.grading.grade = s.grading.grade
           /\ t.grading.maxGrade = s.grading.maxGrade
           /\ t.grading.feedback = s.grading.feedback
           /\ t.grading.gradedAt = s.grading.gradedAt
           /\ t.grading.gradedBy = s.grading.gradedBy]_vars

\* C16 as stated: a successful grade of an already graded Submission leaves it
\* with the values of that call alone, nothing of the earlier grading.
C16_RegradeKeepsNothing ==
  [][(out'.op = "grade" /\ out'.code = 200) =>
        \A s \in submissions, t \in submissions' :
           (SameSubmission(s, t) /\ s.status = "graded" /\ t.grading # s.grading) =>
              t.grading = GradingOf(NoGrading, out'.body, out'.user, now)]_vars

\* C16 amended: the second grade succeeds and replaces grade, maxGrade,
\* feedback, gradedAt and grader by its own values; feedbackFileId is replaced
\* when the call names one and keeps the value of the earlier grading when it
\* names none.
C16_RegradeReplacesGradeFields ==
  [][(out'.op = "grade" /\ out'.code = 200) =>
        \A s \in submissions, t \in submissions' :
           (SameSubmission(s, t) /\ s.status = "graded" /\ t.grading # s.grading) =>
              /\ t.status = "graded"
              /\ t.grading.grade = out'.body.grade
              /\ t.grading.maxGrade = out'.body.maxGrade
              /\ t.grading.feedback = out'.body.feedback
              /\ t.grading.gradedAt = now
              /\ t.grading.gradedBy = out'.user
              /\ t.grading.feedbackFileId =
                    IF out'.body.feedbackFileId # 0 THEN out'.body.feedbackFileId
                    ELSE s.grading.feedbackFileId]_vars

\* The second grading (grade 2, no feedback file) has just been answered: the
\* item carries its grade and the feedback file of the first.
C16_Witness ==
  /\ out.op = "grade" /\ out.code = 200 /\ out.body.grade = 2
  /\ \E s \in submissions :
        /\ s.status = "graded" /\ s.grading.grade = 2 /\ s.grading.maxGrade = 10
        /\ s.grading.gradedAt = now /\ s.grading.feedbackFileId = 7

C18_IsLateFixedAtSubmit ==
  [][/\ \A p \in Procs :
          (req[p] = Idle /\ req'[p] # Idle /\ req'[p].op = "submit") =>
             (req'[p].late <=> Past(req'[p].due, now))
     /\ \A p \in Procs :
          (req[p] # Idle /\ req[p].op = "submit" /\ req[p].pc = "put"
           /\ req'[p] # req[p]) =>
             \A t \in submissions' \ submissions : t.isLate = req[p].late
     /\ \A s \in submissions, t \in submissions' :
          SameSubmission(s, t) =>
             /\ t.isLate = s.isLate
             /\ t.submissionNumber = s.submissionNumber
             /\ t.submittedAt = s.submittedAt]_vars

\* C19: a submit goes on to write only when the file it names is stored under
\* the submitting student's own (userId, fileId) key, as uploaded by that
\* student, with status active; every Submission record references a file of
\* its student, never one that is only shared with the student.
C19_SubmitsOwnActiveFile ==
  [][/\ \A p \in Procs :
          (req[p] = Idle /\ req'[p] # Idle /\ req'[p].op = "submit") =>
             \E r \in files :
                /\ r.userId = req'[p].user /\ r.fileId = req'[p].file
                /\ r.full /\ r.status = "active"
     /\ \A t \in submissions' \ submissions :
          t.full => \E r \in files :
                       r.userId = t.studentId /\ r.fileId = t.fileId /\ r.full]_vars

\* Student a's submission of its own file 1 was accepted, and b, who holds an
\* active share of file 1, has just been refused the submission of that file.
C19_Witness ==
  /\ accepted # <<>>
  /\ \E s \in submissions : s.full /\ s.studentId = "a" /\ s.fileId = 1
  /\ \E s \in shares : s.fileId = 1 /\ s.sharedWithUserId = "b" /\ s.status = "active"
  /\ out.op = "submit" /\ out.user = "b" /\ out.file = 1 /\ out.assignment = 1
  /\ out.code = 404

\* C20: createShares on an owned active file works through every recipient and
\* answers 200 with totalShared + totalFailed equal to the number of
\* recipients: a recipient that is rejected or whose put_item fails neither
\* ends the request nor removes the shares written for earlier recipients.
C20_EveryRecipientProcessed ==
  [][\A p \in Procs :
        (Acts(p) /\ req[p].op = "share") =>
           LET r == req[p]
               total == Len(r.shared) + Len(r.failed) + Len(r.rest)
           IN  /\ req'[p] = Idle => out'.code = 200
               /\ Len(SharedAfter(p)) + Len(FailedAfter(p))
                    + (IF req'[p] = Idle THEN 0 ELSE Len(req'[p].rest)) = total
               /\ \A i \in 1..Len(r.shared) :
                     /\ SharedAfter(p)[i] = r.shared[i]
                     /\ \E s \in shares' : s.shareId = r.shared[i].shareId]_vars

\* C21: a recipient that createShares rejects (no email, an email without "@"
\* or ".", the owner's own email in any case, or a grantee who holds an active
\* share of the file) adds exactly one entry to `failed`, with the reason of
\* its case, and the shares table and the `shared` list stay as they were.
C21_RejectedOnlyFails ==
  [][\A p \in Procs :
        (Acts(p) /\ req[p].op = "share" /\ req[p].pc = "check") =>
           LET r == req[p]
               rcp == Head(r.rest)
               g == get_user_by_email(rcp.email)
               reason ==
                 IF rcp.email = "" THEN "Missing email"
                 ELSE IF ~HasAt(rcp.email) \/ ~HasDot(rcp.email)
                      THEN "Invalid email format"
                 ELSE IF Lower(rcp.email) = Lower(ClaimsEmail(r.user))
                      THEN "Cannot share with yourself"
                 ELSE IF g # NoId /\ \E s \in QueryShare(r.file, g) : s.status = "active"
                      THEN "File already shared with this user"
                 ELSE ""
           IN  /\ reason # "" =>
                    /\ shares' = shares
                    /\ SharedAfter(p) = r.shared
                    /\ FailedAfter(p) =
                         Append(r.failed, [email |-> rcp.email, error |-> reason])
               /\ reason = "" => FailedAfter(p) = r.failed]_vars

\* A request with the recipients "n@x" and "b@x.io" has answered: the first is
\* in `failed` as an invalid email, the second was shared, and the only share
\* stored is the one of b.
C21_Witness ==
  /\ out.op = "share" /\ out.code = 200
  /\ out.failed = <<[email |-> "n@x", error |-> "Invalid email format"]>>
  /\ Len(out.shared) = 1 /\ out.shared[1].email = "b@x.io"
  /\ \A s \in shares : s.sharedWithUserId = "b"
  /\ shares # {}

\* C22: a request answered with 400, 403 or 404 (share, list-shares, revoke,
\* download, upload completion, submit, list-submissions, grade) leaves the
\* files, the shares, the submissions and the assignments with their
\* submissionCount as they were before the request.
C22_ClientErrorWritesNothing ==
  [][(/\ out'.op \in {"share", "list_shares", "revoke", "download",
                      "complete_upload", "submit", "list_submissions", "grade"}
      /\ out'.code \in {400, 403, 404}) =>
        /\ files' = files
        /\ shares' = shares
        /\ submissions' = submissions
        /\ assignments' = assignments]_vars

\* C23: a principal who is neither the owner nor a grantee of file f gets, from
\* createShares, listShares, revokeShare and the download request for f, the
\* NotFound response that a file id without any record gets.
C23_NoAccessLooksAbsent ==
  (/\ out.op \in {"share", "list_shares", "revoke", "download"}
   /\ NoAccess(out.user, out.file)) => out.code = 404

\* C24: the Share that createShares writes carries the permissions, the email
\* and the expiresAt supplied, and a listShares of the file by its owner at the
\* time of creation, the share not revoked, returns it with those three values,
\* whatever permissions and expiresAt the creation accepted.
C24_CreatedShareListedAsSupplied ==
  [][/\ \A p \in Procs :
          (Acts(p) /\ req[p].op = "share" /\ req[p].pc = "put") =>
             \E s \in shares' :
                /\ s.full /\ s.shareId = nextShareId
                /\ s.permissions = Head(req[p].rest).permissions
                /\ s.sharedWithEmail = Head(req[p].rest).email
                /\ s.expiresAt = req[p].exp
     /\ (out'.op = "list_shares" /\ out'.user \in CredOwners(out'.file)) =>
          \A s \in QuerySharesOfFile(out'.file) :
             (s.full /\ s.status = "active" /\ s.sharedAt = now) =>
                \E x \in out'.shares :
                   /\ x.shareId = s.shareId
                   /\ x.permissions = s.permissions
                   /\ x.email = s.sharedWithEmail
                   /\ x.expiresAt = s.expiresAt]_vars

\* C25: with notifications enabled, the step of createShares, submit or grade
\* that publishes answers and leaves the tables exactly as the handler does
\* after its write, whether publish returned or raised: the share is stored
\* and reported in `shared`, the submission is stored, counted and answered
\* 201, the grade is stored and answered 200.
C25_DispatchFailureChangesNothing ==
  [][/\ \A p \in Procs :
          (Acts(p) /\ req[p].op = "share" /\ req[p].pc = "put") =>
             LET r == req[p]
             IN  /\ SharedAfter(p) =
                      Append(r.shared,
                             [shareId |-> nextShareId, email |-> Head(r.rest).email,
                              sharedAt |-> now, expiresAt |-> r.exp])
                 /\ FailedAfter(p) = r.failed
                 /\ req'[p] = Idle => out'.code = 200
                 /\ \E s \in shares' :
                       /\ s.shareId = nextShareId /\ s.status = "active"
                       /\ s.fileId = r.file /\ s.sharedWithUserId = r.gid
     /\ \A p \in Procs :
          (Acts(p) /\ req[p].op = "submit" /\ req[p].pc = "count") =>
             LET r == req[p]
             IN  /\ out'.code = 201 /\ out'.submissionId = r.sid
                 /\ accepted' = Append(accepted, out')
                 /\ submissions' = submissions
                 /\ \E t \in submissions : t.full /\ t.submissionId = r.sid
                 /\ \A a \in assignments :
                       a.assignmentId = r.assignment =>
                          [a EXCEPT !.submissionCount = @ + 1] \in assignments'
     /\ (/\ out'.op = "grade" /\ Qualified(out') /\ out'.body.hasGrade
         /\ \E t \in submissions :
               /\ t.full /\ t.submissionId = out'.submissionId
               /\ t.assignmentId = out'.assignment) =>
          /\ out'.code = 200
          /\ \E t \in submissions' :
                /\ t.status = "graded" /\ t.grading.grade = out'.body.grade
                /\ t.grading.gradedBy = out'.user /\ t.grading.gradedAt = now]_vars

\* The publish of a grade notification has just raised: the request was
\* answered 200 and the grade is stored; a share and a submission, each
\* followed by a publish, are stored as well.
C25_Witness ==
  /\ sns = Dispatch("grade", FALSE)
  /\ out.op = "grade" /\ out.code = 200
  /\ \E t \in submissions :
        t.status = "graded" /\ t.grading.grade = out.body.grade
  /\ accepted # <<>>
  /\ \E s \in shares : s.status = "active"

\* C26: the statistics block of listSubmissions counts all Submission records
\* of the assignment, whatever limit, nextToken and status filter the request
\* carries, and totalSubmissions = onTime + late = graded + pending.
C26_StatisticsOverAllRecords ==
  (out.op = "list_submissions" /\ out.code = 200) =>
     LET all == {s \in submissions : s.assignmentId = out.assignment}
         st == out.statistics
     IN  /\ st.totalSubmissions = Cardinality(all)
         /\ st.onTime = Cardinality({s \in all : ~s.isLate})
         /\ st.late = Cardinality({s \in all : s.isLate})
         /\ st.graded = Cardinality({s \in all : s.status = "graded"})
         /\ st.pending = Cardinality({s \in all : s.status = "submitted"})
         /\ st.totalSubmissions = st.onTime + st.late
         /\ st.totalSubmissions = st.graded + st.pending

C28_ExpiredShareDoesNotBlock ==
  [][\A p \in Procs :
        (Acts(p) /\ req[p].op = "share") =>
           LET r == req[p]
               rcp == Head(r.rest)
               g == get_user_by_email(rcp.email)
               valid == /\ HasAt(rcp.email) /\ HasDot(rcp.email)
                        /\ Lower(rcp.email) # Lower(ClaimsEmail(r.user))
                        /\ g # NoId
               existing == {s \in shares : s.fileId = r.file /\ s.sharedWithUserId = g}
           IN  /\ (/\ r.pc = "check" /\ valid /\ existing # {}
                   /\ \A s \in existing :
                         s.status = "active" /\ Past(s.expiresAt, now)) =>
                     /\ req'[p] # Idle
                     /\ req'[p].pc = "put" /\ req'[p].gid = g
               /\ r.pc = "put" =>
                     \E s \in shares' :
                        /\ s.shareId = nextShareId /\ s.status = "active"
                        /\ s.fileId = r.file /\ s.sharedWithUserId = r.gid]_vars

\* C29: a File record for which upload credentials were issued has status
\* active only if the bucket holds an object under the record's own s3Key;
\* complete_upload does not activate it on the evidence of an object stored
\* under another key.
C29_ActiveOnlyWithOwnObject ==
  \A r \in files : (r.full /\ r.status = "active") => r.s3Key \in s3

\* C30: a successful grade of a submission that submit accepted leaves the
\* record submit wrote for it, the one the listings return, with status graded
\* and the grade given, and creates no record: the assignment has as many
\* Submission records after the grade as before.
C30_GradeUpdatesSubmittedRecord ==
  [][(/\ out'.op = "grade" /\ out'.code = 200
      /\ \E i \in 1..Len(accepted) :
            accepted[i].submissionId = out'.submissionId) =>
        /\ Cardinality({t \in submissions' : t.assignmentId = out'.assignment})
             = Cardinality({s \in submissions : s.assignmentId = out'.assignment})
        /\ \E t \in submissions' :
              /\ t.full /\ t.submissionId = out'.submissionId
              /\ t.status = "graded" /\ t.grading.grade = out'.body.grade]_vars

\* C31: whenever no submit is in progress, the submissionCount of every
\* assignment equals the number of Submission records stored for it (both
\* start at zero), under concurrent submits and when the counter update fails
\* after the record was written.
C31_CountMatchesRecords ==
  (\A p \in Procs : req[p] = Idle) =>
     \A a \in assignments :
        a.submissionCount = Cardinality(QuerySubmissions(a.assignmentId))

\* C32: createShares by the holder of a file's credentials while the file's
\* record is pending or failed is answered 400 and writes no Share; listShares
\* by that user is answered 200 and revokeShare of a share of the file is not
\* refused, whatever the status of the file.
C32_InactiveRejectsShareOnly ==
  [][\A f \in FileIds, r \in files :
        (r.fileId = f /\ r.full) =>
           /\ r.status # "active" =>
                 /\ \A p \in Procs :
                       ~(/\ req[p] = Idle /\ req'[p] # Idle /\ req'[p].op = "share"
                         /\ req'[p].user = r.userId /\ req'[p].file = f)
                 /\ (/\ out'.op = "share" /\ req' = req
                     /\ out'.user = r.userId /\ out'.file = f)
                       => (out'.code = 400 /\ shares' = shares)
           /\ (out'.op = "list_shares" /\ out'.user = r.userId /\ out'.file = f)
                 => out'.code = 200
           /\ (/\ out'.op = "revoke" /\ out'.user = r.userId /\ out'.file = f
               /\ \E s \in QueryShareIdIndex(out'.sid) : s.fileId = f)
                 => out'.code = 200]_vars

\* C33: revokeShare by the owner on a share that is already revoked is
\* answered 200 and leaves the shares table, and with it the status and the
\* revokedAt of that Share, exactly as it was.
C33_SecondRevokeChangesNothing ==
  [][(/\ out'.op = "revoke"
      /\ \E r \in files : r.full /\ r.fileId = out'.file /\ r.userId = out'.user
      /\ \E s \in shares : /\ s.full /\ s.shareId = out'.sid
                            /\ s.fileId = out'.file /\ s.status = "revoked")
       => (out'.code = 200 /\ shares' = shares)]_vars

\* C34: a successful revokeShare(file, shareId) changes the status of no Share
\* other than the one carrying that shareId, under every interleaving with
\* createShares for the same file and grantee.
C34_RevokesOnlyTheNamedShare ==
  [][(out'.op = "revoke" /\ out'.code = 200) =>
        \A s \in shares, t \in shares' :
           (SameKey(s, t) /\ t.status # s.status) => s.shareId = out'.sid]_vars

\* C35: once no request is in flight, every shareId in the `shared` list of
\* the createShares response just sent identifies a Share record in the
\* store, also after two createShares for the same file and grantee ran
\* concurrently and both reported success (nothing revokes and nothing
\* expires here).
C35_ReportedSharesAreStored ==
  (out.op = "share" /\ out.code = 200 /\ \A p \in Procs : req[p] = Idle) =>
     \A i \in 1..Len(out.shared) :
        \E s \in shares : s.full /\ s.shareId = out.shared[i].shareId

\* C36: no two active Share records of one file carry the same grantee email,
\* whether the email belongs to a registered user or not.
C36_OneActiveSharePerEmail ==
  \A s, t \in shares :
     (/\ s.full /\ t.full /\ s.fileId = t.fileId
      /\ s.status = "active" /\ t.status = "active"
      /\ s.sharedWithEmail = t.sharedWithEmail) => s = t

\* C37: listShares by the owner of an existing file is answered 200, whatever
\* expiresAt the createShares calls that succeeded before it were given.
C37_OwnerListingNeverFails ==
  (/\ out.op = "list_shares"
   /\ \E r \in files : r.full /\ r.fileId = out.file /\ r.userId = out.user)
    => out.code = 200

\* C38: every stored Share has accessCount 0, from its creation on; a download
\* URL issued to a grantee changes the File's downloadCount and nothing in the
\* shares table; listShares reports accessCount 0 for every share.
C38_AccessCountNeverMoves ==
  [][/\ \A t \in shares' : t.accessCount = 0
     /\ (out'.op = "download" /\ out'.issued) =>
           /\ shares' = shares
           /\ \E r \in files, q \in files' :
                 /\ r.fileId = out'.file /\ q.fileId = r.fileId /\ q.userId = r.userId
                 /\ q.downloadCount = r.downloadCount + 1
     /\ out'.op = "list_shares" => \A x \in out'.shares : x.accessCount = 0]_vars

\* The grantee b of an active share of file 1 has just been issued a download
\* URL, and the file's downloadCount shows it.
C38_Witness ==
  /\ out.op = "download" /\ out.user = "b" /\ out.issued
  /\ \E s \in QueryShare(out.file, "b") : s.full /\ s.status = "active"
  /\ \E r \in files : r.fileId = out.file /\ r.userId = "a" /\ r.downloadCount = 1

\* C39: complete_upload with uploadSuccess = true by a caller whose File record
\* is already active is answered 200 and leaves the files table as it was,
\* whatever s3Key the request names and however often it is repeated.
C39_RepeatedCompletionIsNoOp ==
  [][(/\ out'.op = "complete_upload" /\ out'.success
      /\ \E r \in GetFile(out'.user, out'.fileId) : r.status = "active")
       => (out'.code = 200 /\ files' = files)]_vars
====
